---- MODULE Spec2Model ----
(***************************************************************************)
(* Model of the vizdiff CLI upload pipeline: uploadStorybook               *)
(* (src/src/upload-storybook.ts).  One call of the async function is a     *)
(* state machine whose steps are the stretches of code between two awaits; *)
(* the filesystem, the compression library and the HTTP service are the    *)
(* environment and answer each step nondeterministically.                  *)
(*                                                                         *)
(* Strings are sequences of one-character strings, so that lengths and     *)
(* character classes are computed the way the code computes them.          *)
(***************************************************************************)
EXTENDS Integers, Sequences, FiniteSets, TLC

VARIABLES
  opts,            \* the UploadStorybookOpts argument of the call
  pc,              \* position of the call inside uploadStorybook
  fsOps,           \* filesystem / packaging calls made so far, in order
  tmpFiles,        \* archive files present in os.tmpdir()
  tarballFilename, \* the destination path chosen for the archive
  projectJson,     \* what reading project.json gave (the local json / project)
  indexJson,       \* what reading index.json gave (the local json / index)
  storyCount,      \* value of the local storyCount
  requests,        \* requests handed to fetch(), in order
  response,        \* the Response fetch() resolved with
  completion,      \* completion of the try block, pending during finally
  result,          \* settlement of the promise returned by uploadStorybook
  log,             \* messages passed to info(), in order
  options,         \* the storybook directory and CommandArgs given to vizdiff()
  cliPc,           \* position inside vizdiff(); "library" when the call is direct
  dirTree,         \* the directories above the storybook directory
  gitDir,          \* the local gitDir: what findGitRoot returned last
  gitOps,          \* repository queries made so far, in order
  resolved,        \* the locals commitSha, branch, baseCommitSha, baseBranch, prNumber
  fatalMsgs,       \* messages passed to fatal(), in order
  otherPc,         \* position of a second, concurrent call of uploadStorybook
  otherName        \* the destination path chosen by the second call

uploadVars == <<opts, pc, fsOps, tmpFiles, tarballFilename, projectJson, indexJson,
                storyCount, requests, response, completion, result, log>>
cliVars == <<options, cliPc, dirTree, gitDir, gitOps, resolved, fatalMsgs>>
otherVars == <<otherPc, otherName>>
vars == <<uploadVars, cliVars, otherVars>>

----------------------------------------------------------------------------
(* Bounds of the model *)

MaxStories == 2
MaxPrNumber == 1
NumTmpNames == 2

(* Program constants *)

ShaLen == 40
MaxBranchLen == 255

----------------------------------------------------------------------------
(* Strings and optional values *)

EmptyStr == <<>>
Rep(c, n) == [i \in 1..n |-> c]

Undefined == [def |-> FALSE, v |-> EmptyStr]
Some(s) == [def |-> TRUE, v |-> s]

\* JavaScript truthiness of a string | undefined value
TruthyStr(o) == o.def /\ o.v # EmptyStr

NoNum == [k |-> "undefined", v |-> 0]
Num(n) == [k |-> "number", v |-> n]
NaN == [k |-> "NaN", v |-> 0]

\* JavaScript truthiness of a number | undefined value
TruthyNum(o) == o.k = "number" /\ o.v # 0

Digit(d) == CASE d = 0 -> "0" [] d = 1 -> "1" [] d = 2 -> "2" [] d = 3 -> "3"
              [] d = 4 -> "4" [] d = 5 -> "5" [] d = 6 -> "6" [] d = 7 -> "7"
              [] d = 8 -> "8" [] d = 9 -> "9"

RECURSIVE NatToString(_)
NatToString(n) == IF n < 10 THEN <<Digit(n)>>
                  ELSE NatToString(n \div 10) \o <<Digit(n % 10)>>

\* Number.prototype.toString() of an integer
toString(n) == IF n < 0 THEN <<"-">> \o NatToString(0 - n) ELSE NatToString(n)

----------------------------------------------------------------------------
(* Errors.  A message is the template literal that built it together with  *)
(* the values interpolated into it.                                        *)

NoFields == <<>>
JVal(t, s, n, f) == [t |-> t, s |-> s, n |-> n, f |-> f]
JUndefined == JVal("undefined", EmptyStr, 0, NoFields)

\* The template literals of the messages the code builds
T_InvalidCommitSha == "Invalid commit SHA: \"${commitSha}\""
T_InvalidBranch == "Invalid branch name: \"${branch}\""
T_ManifestMissing == "Storybook build manifest does not exist: ${projectJsonPath}"
T_ManifestParseError == "Failed to parse project.json file: ${error}"
T_ManifestInvalid == "Invalid project.json file: ${projectJsonPath}"
T_IndexParseError == "Failed to parse index.json file: ${error}"
T_NoStoriesFound == "No stories found in index.json file: ${indexJsonPath}"
T_PackagingFailed == "Failed to tar+gzip storybook build folder: ${error}"
T_UploadRejectedGeneric == "Failed to upload storybook build folder to vizdiff CDN: ${statusText} (${status})"
T_UploadFailed == "Failed to upload storybook build folder to vizdiff CDN: ${error}"
T_FoundStories == "Found ${storyCount} stories"
T_CreatedTarball == "Created storybook tarball: ${tarballFilename}"
T_Uploading == "Uploading ${size} for commit ${commitSha}"
T_Uploaded == "Uploaded storybook build folder, testId=${res.testId}, uploadId=${res.uploadId}"
T_DeletedTarball == "Deleted storybook tarball: ${tarballFilename}"
T_ErrorStringVerbatim == "${error}"
T_ReadFileFailed == "readFile failed"
T_FetchFailed == "fetch failed"
T_JsonFailed == "response.json() failed"
T_TypeErrorThrown == "TypeError"
T_UnlinkFailed == "unlink failed"

Msg(tmpl, arg, num) == [tmpl |-> tmpl, arg |-> arg, num |-> num]
Error(msg) == [message |-> msg, statusCode |-> NoNum]
NoError == [message |-> Msg("none", EmptyStr, 0), statusCode |-> NoNum]

\* Settlement of a promise / completion of a block.  The function is declared
\* Promise<void> and has no return statement: it fulfils with undefined.
Pending == [state |-> "pending", error |-> NoError, value |-> JUndefined]
Rejected(e) == [state |-> "rejected", error |-> e, value |-> JUndefined]
FulfilledWith(v) == [state |-> "fulfilled", error |-> NoError, value |-> v]

----------------------------------------------------------------------------
(* Input validation *)

HexChars == {"0", "1", "2", "3", "4", "5", "6", "7", "8", "9",
             "a", "b", "c", "d", "e", "f",
             "A", "B", "C", "D", "E", "F"}

\* the pattern without its end anchor: /^[0-9a-f]{40}/i
isValidGitCommitHash_Unanchored(hash) ==
  /\ Len(hash) >= ShaLen
  /\ \A i \in 1..ShaLen : hash[i] \in HexChars

\* /^[0-9a-f]{40}$/i
isValidGitCommitHash(hash) ==
  /\ Len(hash) = ShaLen
  /\ \A i \in 1..Len(hash) : hash[i] \in HexChars

\* the branch check without its upper bound: !branch
BranchRejected_OnlyEmpty(branch) == branch = EmptyStr

\* !branch || branch.length > 255
BranchRejected(branch) == branch = EmptyStr \/ Len(branch) > MaxBranchLen

MixedSha == [i \in 1..ShaLen |->
               CASE i % 4 = 0 -> "0" [] i % 4 = 1 -> "9"
                 [] i % 4 = 2 -> "f" [] OTHER -> "C"]

ShaSamples ==
  { Rep("a", ShaLen), MixedSha,
    Rep("a", ShaLen - 1), Rep("a", ShaLen + 1),
    Rep("a", ShaLen - 1) \o <<"g">>,
    Rep("a", ShaLen) \o <<"\n">>,
    EmptyStr }

BranchSamples ==
  { EmptyStr, <<"m">>, Rep("b", MaxBranchLen), Rep("b", MaxBranchLen + 1) }

BaseCommitSamples == { Undefined, Some(EmptyStr), Some(Rep("b", ShaLen)) }
BaseBranchSamples == { Undefined, Some(EmptyStr), Some(<<"d", "e", "v">>) }

PrNumberSamples ==
  { NoNum, NaN } \cup { Num(n) : n \in (0 - 1)..MaxPrNumber } \cup { Num(10 + MaxPrNumber) }

OptsSamples ==
  [ commitSha : ShaSamples, branch : BranchSamples,
    baseCommitSha : BaseCommitSamples, baseBranch : BaseBranchSamples,
    prNumber : PrNumberSamples ]

----------------------------------------------------------------------------
(* JSON values, as JSON.parse and Response.json() produce them.  An array  *)
(* is an object whose keys are "0", "1", ...; f maps the own enumerable    *)
(* keys of an object or array to their values.                             *)

JNull == JVal("null", EmptyStr, 0, NoFields)
JTrue == JVal("true", EmptyStr, 0, NoFields)
JFalse == JVal("false", EmptyStr, 0, NoFields)
JNum(n) == JVal("number", EmptyStr, n, NoFields)
JStr(s) == JVal("string", s, 0, NoFields)
JObj(f) == JVal("object", EmptyStr, 0, f)
JArr(f) == JVal("array", EmptyStr, 0, f)

\* typeof v
typeof(j) == CASE j.t \in {"object", "array", "null"} -> "object"
               [] j.t \in {"true", "false"} -> "boolean"
               [] OTHER -> j.t

\* truthiness of v
Truthy(j) == CASE j.t \in {"undefined", "null", "false"} -> FALSE
               [] j.t = "number" -> j.n # 0
               [] j.t = "string" -> j.s # EmptyStr
               [] OTHER -> TRUE

\* v.name for a v that is neither null nor undefined
Get(j, name) == IF j.t \in {"object", "array"} /\ name \in DOMAIN j.f
                  THEN j.f[name] ELSE JUndefined

\* "name" in v, for an object v
HasKey(j, name) == j.t \in {"object", "array"} /\ name \in DOMAIN j.f

\* Object.keys(v).length
KeyCount(j) == IF j.t \in {"object", "array"} THEN Cardinality(DOMAIN j.f) ELSE 0

\* The text of a file or of a response body: reading it may fail, and text
\* that was read may fail to parse.
NotRead == [kind |-> "notread", json |-> JUndefined]
Unreadable == [kind |-> "unreadable", json |-> JUndefined]
InvalidText == [kind |-> "invalid", json |-> JUndefined]
TextOf(j) == [kind |-> "json", json |-> j]

Str_v7 == <<"7", ".", "0", ".", "0">>
Str_t1 == <<"t", "1">>
Str_u1 == <<"u", "1">>
Str_quota == <<"q", "u", "o", "t", "a">>
Str_undefined == <<"u", "n", "d", "e", "f", "i", "n", "e", "d">>
Str_gzip == <<"a", "p", "p", "l", "i", "c", "a", "t", "i", "o", "n", "/", "g", "z", "i", "p">>
Str_OK == <<"O", "K">>
Str_Forbidden == <<"F", "o", "r", "b", "i", "d", "d", "e", "n">>

\* String(v) for the values interpolated into log and error messages
ShowJ(j) == CASE j.t = "string" -> j.s
              [] j.t = "number" -> toString(j.n)
              [] j.t = "undefined" -> Str_undefined
              [] OTHER -> <<j.t>>

ProjectJsonSamples ==
  { Unreadable, InvalidText,
    TextOf(JNull), TextOf(JFalse), TextOf(JStr(Str_v7)), TextOf(JArr(NoFields)),
    TextOf(JObj(NoFields)),
    TextOf(JObj("framework" :> JObj("name" :> JStr(<<"r">>)))),
    TextOf(JObj("storybookVersion" :> JNum(7))),
    TextOf(JObj("storybookVersion" :> JNull)),
    TextOf(JObj("storybookVersion" :> JStr(Str_v7))) }

Story == JObj("type" :> JStr(<<"s">>))
Entries(n) == JObj([k \in { Digit(i) : i \in 1..n } |-> Story])

IndexJsonSamples ==
  { Unreadable, InvalidText,
    TextOf(JNull), TextOf(JStr(Str_v7)), TextOf(JArr("0" :> Story)),
    TextOf(JObj(NoFields)),
    TextOf(JObj("v" :> JNum(5))),
    TextOf(JObj("entries" :> JNull)),
    TextOf(JObj("entries" :> JNum(3))),
    TextOf(JObj("entries" :> JStr(Str_v7))),
    TextOf(JObj("entries" :> JArr(NoFields))) }
  \cup { TextOf(JObj("v" :> JNum(5) @@ "entries" :> Entries(n))) : n \in 0..MaxStories }

----------------------------------------------------------------------------
(* HTTP responses *)

OkStatusSamples == {200, 299}
ErrorStatusSamples == {300, 401, 402, 403}

StatusTextOf(status) == CASE status = 200 -> Str_OK
                          [] status = 403 -> Str_Forbidden
                          [] OTHER -> EmptyStr

\* Response.ok
Ok(status) == 200 <= status /\ status <= 299

ErrorBodySamples ==
  { Unreadable, InvalidText,
    TextOf(JNull), TextOf(JStr(Str_quota)), TextOf(JObj(NoFields)),
    TextOf(JObj("error" :> JStr(Str_quota))),
    TextOf(JObj("error" :> JStr(EmptyStr))),
    TextOf(JObj("error" :> JNum(5))),
    TextOf(JObj("error" :> JNull)),
    TextOf(JObj("success" :> JFalse @@ "error" :> JStr(Str_quota))) }

OkBodySamples ==
  { Unreadable, InvalidText,
    TextOf(JNull), TextOf(JObj(NoFields)),
    TextOf(JObj("error" :> JStr(Str_quota))),
    TextOf(JObj("success" :> JFalse)),
    TextOf(JObj("success" :> JFalse @@ "error" :> JNull)),
    TextOf(JObj("success" :> JFalse @@ "error" :> JStr(Str_quota))),
    TextOf(JObj("success" :> JTrue)),
    TextOf(JObj("success" :> JTrue @@ "testId" :> JStr(Str_t1))),
    TextOf(JObj("success" :> JTrue @@ "testId" :> JStr(Str_t1) @@ "uploadId" :> JStr(Str_u1))) }

\* what response.headers.get("content-type") says about application/json
ContentTypeSamples == {"json", "other", "absent"}

Response(st, ct, b) ==
  [present |-> TRUE, status |-> st, statusText |-> StatusTextOf(st), ctype |-> ct, body |-> b]

ResponseSamples ==
  { Response(st, ct, b) :
      st \in ErrorStatusSamples, ct \in ContentTypeSamples, b \in ErrorBodySamples }
  \cup { Response(st, "json", b) : st \in OkStatusSamples, b \in OkBodySamples }
  \cup { Response(200, ct, TextOf(JObj("success" :> JTrue))) : ct \in ContentTypeSamples }

NoResponse == [present |-> FALSE, status |-> 0, statusText |-> EmptyStr,
               ctype |-> "absent", body |-> Unreadable]

----------------------------------------------------------------------------
(* The command line: paths, options and the values vizdiff() resolves *)

\* A directory path: absolute or relative to the working directory, with a
\* number of segments below its anchor ("/" or ".").
Path(abs, segs) == [def |-> TRUE, abs |-> abs, segs |-> segs]
NoPath == [def |-> FALSE, abs |-> FALSE, segs |-> 0]

\* cwd: the depth of the working directory below the filesystem root;
\* markers: the depths of the directories that contain a .git entry
Tree(cwd, markers) == [cwd |-> cwd, markers |-> markers]

NoOptions ==
  [ storybookDir |-> NoPath, commit |-> Undefined, branch |-> Undefined,
    baseBranch |-> Undefined, baseCommit |-> Undefined, pr |-> Undefined ]

NothingResolved ==
  [ commitSha |-> Undefined, branch |-> Undefined, baseCommitSha |-> Undefined,
    baseBranch |-> Undefined, actualBaseBranch |-> Undefined, prNumber |-> NoNum ]

----------------------------------------------------------------------------
(* Initial state: the call has been made, nothing has run yet *)


\* nothing of the call has run yet
UploadFresh ==
  /\ fsOps = <<>>
  /\ tmpFiles = {}
  /\ tarballFilename = 0
  /\ projectJson = NotRead
  /\ indexJson = NotRead
  /\ storyCount = 0
  /\ requests = <<>>
  /\ response = NoResponse
  /\ completion = Pending
  /\ result = Pending
  /\ log = <<>>

\* uploadStorybook is called directly, not by the command line
NoCli ==
  /\ options = NoOptions
  /\ cliPc = "library"
  /\ dirTree = Tree(0, {})
  /\ gitDir = NoPath
  /\ gitOps = <<>>
  /\ resolved = NothingResolved
  /\ fatalMsgs = <<>>

\* no second call is running
NoOtherCall == otherPc = "absent" /\ otherName = 0

Init ==
  /\ opts \in OptsSamples
  /\ pc = "validate"
  /\ UploadFresh
  /\ NoCli
  /\ NoOtherCall

\* throw outside the try block: the promise rejects at once
Throw(e) ==
  /\ pc' = "done"
  /\ result' = Rejected(e)

\* lines 28-34
Validate ==
  /\ pc = "validate"
  /\ IF ~isValidGitCommitHash(opts.commitSha)
       THEN Throw(Error(Msg(T_InvalidCommitSha, opts.commitSha, 0)))
     ELSE IF BranchRejected(opts.branch)
       THEN Throw(Error(Msg(T_InvalidBranch, opts.branch, 0)))
     ELSE /\ pc' = "access"
          /\ UNCHANGED result
  /\ UNCHANGED <<cliVars, otherVars>>
  /\ UNCHANGED <<opts, fsOps, tmpFiles, tarballFilename, projectJson, indexJson,
                 storyCount, requests, response, completion, log>>

FsOp(op, path, ok) == [op |-> op, path |-> path, ok |-> ok]
ArchivePath == "tarball"

\* lines 36-43
AccessProjectJson ==
  /\ pc = "access"
  /\ \E accessible \in BOOLEAN :
       /\ fsOps' = Append(fsOps, FsOp("access", "project.json", accessible))
       /\ IF ~accessible
            THEN Throw(Error(Msg(T_ManifestMissing,
                                 EmptyStr, 0)))
            ELSE pc' = "readProject" /\ UNCHANGED result
  /\ UNCHANGED <<cliVars, otherVars>>
  /\ UNCHANGED <<opts, tmpFiles, tarballFilename, projectJson, indexJson, storyCount,
                 requests, response, completion, log>>

\* the check without the type test: !project || !("storybookVersion" in project)
ProjectRejected_AnyType(project) ==
  ~Truthy(project) \/ ~HasKey(project, "storybookVersion")

\* !project || typeof project.storybookVersion !== "string"
ProjectRejected(project) ==
  ~Truthy(project) \/ typeof(Get(project, "storybookVersion")) # "string"

\* lines 45-57
ReadProjectJson ==
  /\ pc = "readProject"
  /\ \E text \in ProjectJsonSamples :
       /\ fsOps' = Append(fsOps, FsOp("readFile", "project.json", text.kind # "unreadable"))
       /\ projectJson' = text
       /\ IF text.kind # "json"
            THEN Throw(Error(Msg(T_ManifestParseError, EmptyStr, 0)))
          ELSE IF ProjectRejected(text.json)
            THEN Throw(Error(Msg(T_ManifestInvalid, EmptyStr, 0)))
          ELSE pc' = "readIndex" /\ UNCHANGED result
  /\ UNCHANGED <<cliVars, otherVars>>
  /\ UNCHANGED <<opts, tmpFiles, tarballFilename, indexJson, storyCount, requests,
                 response, completion, log>>

\* the count taken over the keys of the index instead of its entries
CountStories_OfIndex(index) ==
  IF Truthy(index) /\ typeof(index) = "object" THEN KeyCount(index) ELSE 0

\* index?.entries && typeof index.entries === "object"
\*   ? Object.keys(index.entries).length : 0
CountStories(index) ==
  LET entries == Get(index, "entries")
  IN  IF Truthy(entries) /\ typeof(entries) = "object" THEN KeyCount(entries) ELSE 0

\* lines 59-75
ReadIndexJson ==
  /\ pc = "readIndex"
  /\ \E text \in IndexJsonSamples :
       /\ fsOps' = Append(fsOps, FsOp("readFile", "index.json", text.kind # "unreadable"))
       /\ indexJson' = text
       /\ IF text.kind # "json"
            THEN /\ Throw(Error(Msg(T_IndexParseError, EmptyStr, 0)))
                 /\ UNCHANGED <<storyCount, log>>
          ELSE IF CountStories(text.json) = 0
            THEN /\ Throw(Error(Msg(T_NoStoriesFound,
                                    EmptyStr, 0)))
                 /\ storyCount' = 0
                 /\ UNCHANGED log
          ELSE /\ storyCount' = CountStories(text.json)
               /\ log' = Append(log, Msg(T_FoundStories, EmptyStr,
                                         CountStories(text.json)))
               /\ pc' = "tar"
               /\ UNCHANGED result
  /\ UNCHANGED <<cliVars, otherVars>>
  /\ UNCHANGED <<opts, tmpFiles, tarballFilename, projectJson, requests, response,
                 completion>>

\* the packaging moved inside the try block: its failure reaches finally
CreateTarball_InsideTry ==
  /\ pc = "tar"
  /\ \E name \in 1..NumTmpNames, failed \in BOOLEAN, written \in BOOLEAN :
       /\ tarballFilename' = name
       /\ fsOps' = Append(fsOps, FsOp("tar", ArchivePath, ~failed))
       /\ IF failed
            THEN /\ tmpFiles' = IF written THEN tmpFiles \cup {name} ELSE tmpFiles
                 /\ pc' = "finally"
                 /\ completion' = Rejected(Error(Msg(T_PackagingFailed, EmptyStr, 0)))
                 /\ UNCHANGED log
            ELSE /\ written
                 /\ tmpFiles' = tmpFiles \cup {name}
                 /\ log' = Append(log, Msg(T_CreatedTarball, EmptyStr, name))
                 /\ pc' = "readBody"
                 /\ UNCHANGED completion
  /\ UNCHANGED <<cliVars, otherVars>>
  /\ UNCHANGED <<opts, projectJson, indexJson, storyCount, requests, response,
                 result>>

\* lines 77-83; the name is the outcome of randHexString()
CreateTarball ==
  /\ pc = "tar"
  /\ \E name \in 1..NumTmpNames, failed \in BOOLEAN, written \in BOOLEAN :
       /\ tarballFilename' = name
       /\ fsOps' = Append(fsOps, FsOp("tar", ArchivePath, ~failed))
       /\ IF failed
            THEN /\ tmpFiles' = IF written THEN tmpFiles \cup {name} ELSE tmpFiles
                 /\ Throw(Error(Msg(T_PackagingFailed,
                                    EmptyStr, 0)))
                 /\ UNCHANGED log
            ELSE /\ written
                 /\ tmpFiles' = tmpFiles \cup {name}
                 /\ log' = Append(log, Msg(T_CreatedTarball,
                                           EmptyStr, name))
                 /\ pc' = "readBody"
                 /\ UNCHANGED result
  /\ UNCHANGED <<cliVars, otherVars>>
  /\ UNCHANGED <<opts, projectJson, indexJson, storyCount, requests, response,
                 completion>>

\* a failed attempt inside the try block started over instead of given up
ThrowInTry_Retry(e) ==
  /\ pc' = IF Len(fsOps) < 8 THEN "fetch" ELSE "finally"
  /\ completion' = Rejected(e)

\* throw inside the try block: control passes to the finally block
ThrowInTry(e) ==
  /\ pc' = "finally"
  /\ completion' = Rejected(e)

\* lines 85-99: the first read of the archive, for the progress message
ReadTarball ==
  /\ pc = "readBody"
  /\ \E readable \in BOOLEAN :
       /\ readable => tarballFilename \in tmpFiles
       /\ fsOps' = Append(fsOps, FsOp("readFile", ArchivePath, readable))
       /\ IF ~readable
            THEN ThrowInTry(Error(Msg(T_ReadFileFailed, EmptyStr, 0))) /\ UNCHANGED log
            ELSE /\ pc' = "fetch"
                 /\ log' = Append(log, Msg(T_Uploading,
                                           opts.commitSha, 0))
                 /\ UNCHANGED completion
  /\ UNCHANGED <<cliVars, otherVars>>
  /\ UNCHANGED <<opts, tmpFiles, tarballFilename, projectJson, indexJson, storyCount,
                 requests, response, result>>

None == Undefined

\* the headers object literal of lines 102-109
Headers(o) ==
  [ ContentType   |-> Some(Str_gzip),
    CommitSha     |-> Some(o.commitSha),
    Branch        |-> Some(o.branch),
    BaseCommitSha |-> IF TruthyStr(o.baseCommitSha) THEN Some(o.baseCommitSha.v) ELSE None,
    BaseBranch    |-> IF TruthyStr(o.baseBranch) THEN Some(o.baseBranch.v) ELSE None,
    PRNumber      |-> IF TruthyNum(o.prNumber) THEN Some(toString(o.prNumber.v)) ELSE None ]

\* lines 100-111: the archive is read again for the body, then the request
\* is sent and either an answer arrives or the exchange throws
Fetch ==
  /\ pc = "fetch"
  /\ \E readable \in BOOLEAN :
       /\ readable => tarballFilename \in tmpFiles
       /\ fsOps' = Append(fsOps, FsOp("readFile", ArchivePath, readable))
       /\ IF ~readable
            THEN /\ ThrowInTry(Error(Msg(T_ReadFileFailed, EmptyStr, 0)))
                 /\ UNCHANGED <<requests, response>>
            ELSE /\ requests' = Append(requests, [method |-> "POST", headers |-> Headers(opts)])
                 /\ \/ /\ ThrowInTry(Error(Msg(T_FetchFailed, EmptyStr, 0)))
                       /\ UNCHANGED response
                    \/ /\ response' \in ResponseSamples
                       /\ pc' = "interpret"
                       /\ UNCHANGED completion
  /\ UNCHANGED <<cliVars, otherVars>>
  /\ UNCHANGED <<opts, tmpFiles, tarballFilename, projectJson, indexJson, storyCount,
                 result, log>>

GenericRejection(r) ==
  Msg(T_UploadRejectedGeneric,
      r.statusText, r.status)

\* lines 113-130: errorString
ErrorString(r) ==
  IF /\ r.ctype = "json"
     /\ r.body.kind = "json"
     /\ Truthy(r.body.json)
     /\ typeof(r.body.json) = "object"
     /\ HasKey(r.body.json, "error")
     /\ typeof(Get(r.body.json, "error")) = "string"
    THEN Msg(T_ErrorStringVerbatim, Get(r.body.json, "error").s, 0)
    ELSE GenericRejection(r)

\* lines 131-133
UploadError(r) == [message |-> ErrorString(r), statusCode |-> Num(r.status)]

Str_UnknownError == <<"U", "n", "k", "n", "o", "w", "n", " ", "e", "r", "r", "o", "r">>

\* res.error ?? "Unknown error", interpolated
ErrorOrFallback(res) ==
  IF Get(res, "error").t \in {"undefined", "null"}
    THEN Str_UnknownError ELSE ShowJ(Get(res, "error"))

\* the function ending in: return res
ReturnValue_Res(res) == res

\* the function has no return statement (Promise<void>, line 24)
ReturnValue(res) == JUndefined

\* lines 112-141
InterpretResponse ==
  /\ pc = "interpret"
  /\ IF ~Ok(response.status)
       THEN ThrowInTry(UploadError(response)) /\ UNCHANGED log
     ELSE IF response.body.kind # "json"
       THEN ThrowInTry(Error(Msg(T_JsonFailed, EmptyStr, 0))) /\ UNCHANGED log
     ELSE IF response.body.json.t = "null"
       THEN ThrowInTry(Error(Msg(T_TypeErrorThrown, EmptyStr, 0))) /\ UNCHANGED log
     ELSE IF ~Truthy(Get(response.body.json, "success"))
       THEN /\ ThrowInTry(Error(Msg(
                 T_UploadFailed,
                 ErrorOrFallback(response.body.json), 0)))
            /\ UNCHANGED log
     ELSE /\ log' = Append(log, Msg(T_Uploaded,
                              ShowJ(Get(response.body.json, "testId")) \o <<",">> \o
                              ShowJ(Get(response.body.json, "uploadId")), 0))
          /\ pc' = "finally"
          /\ completion' = FulfilledWith(ReturnValue(response.body.json))
  /\ UNCHANGED <<cliVars, otherVars>>
  /\ UNCHANGED <<opts, fsOps, tmpFiles, tarballFilename, projectJson, indexJson,
                 storyCount, requests, response, result>>

\* the deletion as the last statement of the try block instead of in finally
Cleanup_OnlyAfterSuccess ==
  /\ pc = "finally"
  /\ IF completion.state = "fulfilled"
       THEN /\ fsOps' = Append(fsOps, FsOp("unlink", ArchivePath, TRUE))
            /\ tmpFiles' = tmpFiles \ {tarballFilename}
            /\ log' = Append(log, Msg(T_DeletedTarball, EmptyStr, tarballFilename))
       ELSE UNCHANGED <<fsOps, tmpFiles, log>>
  /\ result' = completion
  /\ pc' = "done"
  /\ UNCHANGED <<cliVars, otherVars>>
  /\ UNCHANGED <<opts, tarballFilename, projectJson, indexJson, storyCount, requests,
                 response, completion>>

\* lines 142-146: await fs.unlink(tarballFilename) inside finally
Cleanup ==
  /\ pc = "finally"
  /\ \E unlinked \in BOOLEAN :
       /\ unlinked => tarballFilename \in tmpFiles
       /\ fsOps' = Append(fsOps, FsOp("unlink", ArchivePath, unlinked))
       /\ IF unlinked
            THEN /\ tmpFiles' = tmpFiles \ {tarballFilename}
                 /\ log' = Append(log, Msg(T_DeletedTarball,
                                           EmptyStr, tarballFilename))
                 /\ result' = completion
            ELSE /\ result' = Rejected(Error(Msg(T_UnlinkFailed, EmptyStr, 0)))
                 /\ UNCHANGED <<tmpFiles, log>>
  /\ pc' = "done"
  /\ UNCHANGED <<cliVars, otherVars>>
  /\ UNCHANGED <<opts, tarballFilename, projectJson, indexJson, storyCount, requests,
                 response, completion>>

Next ==
  \/ Validate
  \/ AccessProjectJson
  \/ ReadProjectJson
  \/ ReadIndexJson
  \/ CreateTarball
  \/ ReadTarball
  \/ Fetch
  \/ InterpretResponse
  \/ Cleanup

Spec == Init /\ [][Next]_vars

----------------------------------------------------------------------------
(* Two calls of uploadStorybook in one process. The second call is followed
   from its packaging step on, and only in what it does to the temporary
   directory it shares with the first. *)

\* lines 77-83 in the second call: tar() writes to the path it drew
OtherCreateTarball ==
  /\ otherPc = "tar"
  /\ \E name \in 1..NumTmpNames, failed \in BOOLEAN :
       /\ otherName' = name
       /\ tmpFiles' = tmpFiles \cup {name}
       /\ otherPc' = IF failed THEN "done" ELSE "fetch"
  /\ UNCHANGED <<opts, pc, fsOps, tarballFilename, projectJson, indexJson,
                 storyCount, requests, response, completion, result, log>>
  /\ UNCHANGED cliVars

\* lines 85-141 in the second call: whatever the reads and the exchange give,
\* control reaches the finally block
OtherFetch ==
  /\ otherPc = "fetch"
  /\ otherPc' = "finally"
  /\ UNCHANGED <<uploadVars, cliVars, otherName>>

\* lines 142-146 in the second call: unlink removes whatever is at its path
OtherCleanup ==
  /\ otherPc = "finally"
  /\ tmpFiles' = tmpFiles \ {otherName}
  /\ otherPc' = "done"
  /\ UNCHANGED <<opts, pc, fsOps, tarballFilename, projectJson, indexJson,
                 storyCount, requests, response, completion, result, log>>
  /\ UNCHANGED <<cliVars, otherName>>

\* both calls were made with the same valid options
InitConc ==
  /\ opts \in { o \in OptsSamples :
                  /\ isValidGitCommitHash(o.commitSha) /\ ~BranchRejected(o.branch)
                  /\ ~o.baseCommitSha.def /\ ~o.baseBranch.def /\ o.prNumber = NoNum }
  /\ pc = "validate"
  /\ UploadFresh
  /\ NoCli
  /\ otherPc = "tar" /\ otherName = 0

NextConc ==
  \/ Validate
  \/ AccessProjectJson
  \/ ReadProjectJson
  \/ ReadIndexJson
  \/ CreateTarball
  \/ ReadTarball
  \/ Fetch
  \/ InterpretResponse
  \/ Cleanup
  \/ OtherCreateTarball
  \/ OtherFetch
  \/ OtherCleanup

SpecConc == InitConc /\ [][NextConc]_vars

----------------------------------------------------------------------------
(* The command line, src/bin/vizdiff.ts: vizdiff() resolves the metadata,  *)
(* calls uploadStorybook and reports its failure through fatal().          *)

MaxDepth == 2       \* depth of the deepest directory below the filesystem root

T_MissingToken == "Missing project token. Please set the VIZDIFF_PROJECT_TOKEN environment variable or use the --token option."
T_InvalidToken == "Invalid project token. Please check that the token is correct."
T_NoGitRepository == "Could not find a git repository for the storybook directory."
T_NoLatestCommit == "Could not find the latest commit in the git log"
T_NoCurrentBranch == "Could not find the current branch in the git status"
T_MergeBaseFailed == "Failed to find merge base between \"${branch}\" and \"${actualBaseBranch}\": ${err}"
T_GitFailed == "git failed"
T_Rejection == "${err}"
T_ErrMessage == "${errMessage}"
T_StorybookUploadFailed == "Storybook upload failed"
T_StorybookUploadFailedWith == "Storybook upload failed: ${errMessage}"

Str_m == <<"m">>
Str_dev == <<"d", "e", "v">>
Str_origin == <<"o", "r", "i", "g", "i", "n", "/">>
HeadSha == Rep("a", ShaLen)
GivenBaseSha == Rep("b", ShaLen)
ParentSha == Rep("c", ShaLen)
MergeBaseSha == Rep("d", ShaLen)

\* String.prototype.replace with a string pattern: the first occurrence,
\* the one at the smallest index, is replaced
Replace(s, pat, by) ==
  LET hits == { i \in 1..(Len(s) + 1 - Len(pat)) : SubSeq(s, i, i + Len(pat) - 1) = pat }
      first == CHOOSE i \in hits : \A j \in hits : i <= j
  IN  IF hits = {} THEN s
      ELSE SubSeq(s, 1, first - 1) \o by \o SubSeq(s, first + Len(pat), Len(s))

WhiteSpace == {" ", "\n", "\t"}

\* String.prototype.trim
RECURSIVE Trim(_)
Trim(s) ==
  IF s = EmptyStr THEN s
  ELSE IF Head(s) \in WhiteSpace THEN Trim(Tail(s))
  ELSE IF s[Len(s)] \in WhiteSpace THEN Trim(SubSeq(s, 1, Len(s) - 1))
  ELSE s

\* parseInt(string): leading white space, an optional sign, then the
\* longest run of digits; NaN when no digit follows
RECURSIVE parseInt(_)
parseInt(s) ==
  LET IsDigit(c) == \E d \in 0..9 : Digit(d) = c
      DigitValue(c) == CHOOSE d \in 0..9 : Digit(d) = c
      RECURSIVE DigitsValue(_, _)
      DigitsValue(t, acc) ==
        IF t = EmptyStr \/ ~IsDigit(Head(t)) THEN acc
        ELSE DigitsValue(Tail(t), 10 * acc + DigitValue(Head(t)))
      signed == s # EmptyStr /\ Head(s) \in {"-", "+"}
      digits == IF signed THEN Tail(s) ELSE s
  IN  IF s # EmptyStr /\ Head(s) \in WhiteSpace THEN parseInt(Tail(s))
      ELSE IF digits = EmptyStr \/ ~IsDigit(Head(digits)) THEN NaN
      ELSE IF signed /\ Head(s) = "-" THEN Num(0 - DigitsValue(digits, 0))
      ELSE Num(DigitsValue(digits, 0))

\* lines 206-213
getPrNumber(o) ==
  LET prNumber == IF TruthyStr(o.pr) THEN parseInt(o.pr.v) ELSE NoNum
  IN  IF prNumber.k # "number" \/ prNumber.v < 1 THEN NoNum ELSE prNumber

\* the depth below the filesystem root of the directory a path names
AbsDepth(tree, p) == IF p.abs THEN p.segs ELSE tree.cwd + p.segs

\* fs.existsSync(path.join(dir, ".git"))
ExistsGit(tree, dir) == AbsDepth(tree, dir) \in tree.markers

\* path.dirname: one segment less; "/" and "." are their own parent
dirname(dir) == IF dir.segs > 0 THEN Path(dir.abs, dir.segs - 1) ELSE dir

\* lines 190-204
RECURSIVE findGitRoot(_, _)
findGitRoot(tree, dir) ==
  IF ExistsGit(tree, dir) THEN dir
  ELSE LET parentDir == dirname(dir)
       IN  IF parentDir = dir THEN NoPath
           ELSE findGitRoot(tree, parentDir)

\* the outcome of a query: it threw, it gave nothing, or it gave a value
Threw == [k |-> "throws", v |-> EmptyStr]
Nothing == [k |-> "none", v |-> EmptyStr]
Gave(v) == [k |-> "value", v |-> v]

\* a query made to the repository, or a search for its root, with the
\* function that made it and its outcome
GitOp(fn, cmd, arg, out) == [fn |-> fn, cmd |-> cmd, arg |-> arg, out |-> out]

\* findGitRoot(storybookDir) called by fn
Search(fn, root) ==
  GitOp(fn, "findGitRoot", EmptyStr, IF root.def THEN Gave(EmptyStr) ELSE Nothing)

FatalMsg(tmpl, err) == [tmpl |-> tmpl, err |-> err]

\* fatal(): the message is reported and the process ends
Fatal(msg) ==
  /\ fatalMsgs' = Append(fatalMsgs, msg)
  /\ cliPc' = "exit"

\* vizdiff() rejects: line 39, vizdiff(...).catch(fatal)
CliThrow(e) == Fatal(FatalMsg(T_Rejection, e))

\* lines 51, 88-99: the token comes from the option or the environment
GetToken ==
  /\ cliPc = "getToken"
  /\ \E token \in {"missing", "invalid", "valid"} :
       CASE token = "missing" -> Fatal(FatalMsg(T_MissingToken, NoError))
         [] token = "invalid" -> Fatal(FatalMsg(T_InvalidToken, NoError))
         [] token = "valid" -> cliPc' = "getCommitSha" /\ UNCHANGED fatalMsgs
  /\ UNCHANGED <<options, dirTree, gitDir, gitOps, resolved>>
  /\ UNCHANGED <<uploadVars, otherVars>>

\* lines 52, 101-119
GetCommitSha ==
  /\ cliPc = "getCommitSha"
  /\ IF TruthyStr(options.commit)
       THEN /\ resolved' = [resolved EXCEPT !.commitSha = options.commit]
            /\ cliPc' = "getBranch"
            /\ UNCHANGED <<gitDir, gitOps, fatalMsgs>>
       ELSE LET root == findGitRoot(dirTree, options.storybookDir)
                fn == "getCommitSha"
                Log(out) == gitOps' = gitOps \o <<Search(fn, root), GitOp(fn, "log", EmptyStr, out)>>
            IN  /\ gitDir' = root
                /\ IF ~root.def
                     THEN /\ gitOps' = Append(gitOps, Search(fn, root))
                          /\ CliThrow(Error(Msg(T_NoGitRepository, EmptyStr, 0)))
                          /\ UNCHANGED resolved
                     ELSE \/ /\ Log(Threw)
                             /\ CliThrow(Error(Msg(T_GitFailed, EmptyStr, 0)))
                             /\ UNCHANGED resolved
                          \/ /\ Log(Nothing)
                             /\ CliThrow(Error(Msg(T_NoLatestCommit, EmptyStr, 0)))
                             /\ UNCHANGED resolved
                          \/ /\ Log(Gave(HeadSha))
                             /\ resolved' = [resolved EXCEPT !.commitSha = Some(HeadSha)]
                             /\ cliPc' = "getBranch"
                             /\ UNCHANGED fatalMsgs
  /\ UNCHANGED <<options, dirTree>>
  /\ UNCHANGED <<uploadVars, otherVars>>

CurrentBranchSamples == { Str_m, Str_dev }

\* lines 53, 121-138
GetBranch ==
  /\ cliPc = "getBranch"
  /\ IF TruthyStr(options.branch)
       THEN /\ resolved' = [resolved EXCEPT !.branch = options.branch]
            /\ cliPc' = "getBase"
            /\ UNCHANGED <<gitDir, gitOps, fatalMsgs>>
       ELSE LET root == findGitRoot(dirTree, options.storybookDir)
                fn == "getBranch"
                Status(out) == gitOps' = gitOps \o <<Search(fn, root), GitOp(fn, "status", EmptyStr, out)>>
            IN  /\ gitDir' = root
                /\ IF ~root.def
                     THEN /\ gitOps' = Append(gitOps, Search(fn, root))
                          /\ CliThrow(Error(Msg(T_NoGitRepository, EmptyStr, 0)))
                          /\ UNCHANGED resolved
                     ELSE \/ /\ Status(Threw)
                             /\ CliThrow(Error(Msg(T_GitFailed, EmptyStr, 0)))
                             /\ UNCHANGED resolved
                          \/ /\ Status(Nothing)
                             /\ CliThrow(Error(Msg(T_NoCurrentBranch, EmptyStr, 0)))
                             /\ UNCHANGED resolved
                          \/ \E current \in CurrentBranchSamples :
                               /\ Status(Gave(current))
                               /\ resolved' = [resolved EXCEPT !.branch = Some(current)]
                               /\ cliPc' = "getBase"
                               /\ UNCHANGED fatalMsgs
  /\ UNCHANGED <<options, dirTree>>
  /\ UNCHANGED <<uploadVars, otherVars>>

\* an absent base commit raised as an error instead of returned
ReturnBase_ThrowsIfAbsent(baseCommit, baseBranch) ==
  IF baseCommit.def
    THEN /\ resolved' = [resolved EXCEPT !.baseCommitSha = baseCommit, !.baseBranch = baseBranch]
         /\ cliPc' = "getPrNumber"
         /\ UNCHANGED fatalMsgs
    ELSE /\ CliThrow(Error(Msg(T_NoGitRepository, EmptyStr, 0)))
         /\ UNCHANGED resolved

\* the pair [baseCommitSha, baseBranch] is assigned at line 54
ReturnBase(baseCommit, baseBranch) ==
  /\ resolved' = [resolved EXCEPT !.baseCommitSha = baseCommit, !.baseBranch = baseBranch]
  /\ cliPc' = "getPrNumber"
  /\ UNCHANGED fatalMsgs

\* what git rev-parse --abbrev-ref origin/HEAD prints
DefaultBranchSamples == { Str_origin \o Str_m, Str_origin \o Str_dev }

\* the detected default branch taken even when an override is given
actualBaseBranch_DefaultOnly(baseBranch, defaultBranch) ==
  Replace(defaultBranch, Str_origin, EmptyStr)

\* lines 168-170
actualBaseBranch(baseBranch, defaultBranch) ==
  IF baseBranch.def /\ baseBranch.v # EmptyStr
    THEN baseBranch.v
    ELSE Replace(defaultBranch, Str_origin, EmptyStr)

\* the resolution run although both values of the pair were given
ExplicitBase_Never(o) == FALSE

\* line 55: options.baseCommit && options.baseBranch
ExplicitBase(o) == TruthyStr(o.baseCommit) /\ TruthyStr(o.baseBranch)

Str_abbrevRefHead ==
  <<"-", "-", "a", "b", "b", "r", "e", "v", "-", "r", "e", "f", " ">>
  \o Str_origin \o <<"H", "E", "A", "D">>

\* lines 54-57 and 144-170: the explicit pair, or the start of
\* getBaseCommitShaAndBranch up to the choice of the base branch
GetBaseBranch ==
  /\ cliPc = "getBase"
  /\ IF ExplicitBase(options)
       THEN /\ ReturnBase(options.baseCommit, options.baseBranch)
            /\ UNCHANGED <<gitDir, gitOps>>
       ELSE LET root == findGitRoot(dirTree, options.storybookDir)
                fn == "getBaseCommitShaAndBranch"
                Log(out) == GitOp(fn, "log", EmptyStr, out)
                Remotes(out) == GitOp(fn, "getRemotes", EmptyStr, out)
                RevParse(out) == GitOp(fn, "revparse", Str_abbrevRefHead, out)
                Queries(ops) == gitOps' = gitOps \o <<Search(fn, root)>> \o ops
                GitThrows == /\ CliThrow(Error(Msg(T_GitFailed, EmptyStr, 0)))
                             /\ UNCHANGED resolved
            IN  /\ gitDir' = root
                /\ IF ~root.def
                     THEN /\ Queries(<<>>)
                          /\ ReturnBase(Undefined, Undefined)
                     ELSE \/ Queries(<<Log(Threw)>>) /\ GitThrows
                          \/ Queries(<<Log(Nothing)>>) /\ ReturnBase(Undefined, Undefined)
                          \/ Queries(<<Log(Gave(HeadSha)), Remotes(Threw)>>) /\ GitThrows
                          \/ /\ Queries(<<Log(Gave(HeadSha)), Remotes(Nothing)>>)
                             /\ ReturnBase(Undefined, Undefined)
                          \/ /\ Queries(<<Log(Gave(HeadSha)), Remotes(Gave(Str_origin)),
                                           RevParse(Threw)>>)
                             /\ GitThrows
                          \/ \E defaultBranch \in DefaultBranchSamples :
                               /\ Queries(<<Log(Gave(HeadSha)), Remotes(Gave(Str_origin)),
                                            RevParse(Gave(defaultBranch))>>)
                               /\ resolved' = [resolved EXCEPT !.actualBaseBranch =
                                    Some(actualBaseBranch(options.baseBranch, defaultBranch))]
                               /\ cliPc' = "getBaseCommit"
                               /\ UNCHANGED fatalMsgs
  /\ UNCHANGED <<options, dirTree>>
  /\ UNCHANGED <<uploadVars, otherVars>>

\* what git merge-base prints when it exits without an error message: the
\* commit and a line end, or nothing when the branches share no commit
MergeBaseOutputSamples == { MergeBaseSha \o <<"\n">>, EmptyStr }

\* the merge base computed although the branch is the base branch
SameBranch_Never(branch, base) == FALSE

\* line 172: branch === actualBaseBranch
SameBranch(branch, base) == branch = base

\* lines 172-187
GetBaseCommit ==
  /\ cliPc = "getBaseCommit"
  /\ LET fn == "getBaseCommitShaAndBranch"
         branch == resolved.branch.v
         base == resolved.actualBaseBranch.v
         RevParse(out) ==
           gitOps' = Append(gitOps, GitOp(fn, "revparse",
                                          resolved.commitSha.v \o <<"~", "1">>, out))
         MergeBase(out) ==
           gitOps' = Append(gitOps, GitOp(fn, "merge-base", branch \o <<" ">> \o base, out))
     IN  IF SameBranch(branch, base)
           THEN \/ /\ RevParse(Gave(ParentSha))
                   /\ ReturnBase(Some(ParentSha), Some(base))
                \/ /\ RevParse(Threw)
                   /\ CliThrow(Error(Msg(T_GitFailed, EmptyStr, 0)))
                   /\ UNCHANGED resolved
           ELSE \/ \E mergeBase \in MergeBaseOutputSamples :
                     /\ MergeBase(Gave(mergeBase))
                     /\ ReturnBase(Some(Trim(mergeBase)), Some(base))
                \/ /\ MergeBase(Threw)
                   /\ CliThrow(Error(Msg(T_MergeBaseFailed,
                                         branch \o <<",">> \o base, 0)))
                   /\ UNCHANGED resolved
  /\ UNCHANGED <<options, dirTree, gitDir>>
  /\ UNCHANGED <<uploadVars, otherVars>>

\* lines 58-69: the PR number is filtered and uploadStorybook is called
\* with the resolved values
GetPrNumber ==
  /\ cliPc = "getPrNumber"
  /\ pc = "idle"
  /\ resolved' = [resolved EXCEPT !.prNumber = getPrNumber(options)]
  /\ opts' = [ commitSha |-> resolved.commitSha.v, branch |-> resolved.branch.v,
               baseCommitSha |-> resolved.baseCommitSha,
               baseBranch |-> resolved.baseBranch,
               prNumber |-> getPrNumber(options) ]
  /\ pc' = "validate"
  /\ cliPc' = "upload"
  /\ UNCHANGED <<fsOps, tmpFiles, tarballFilename, projectJson, indexJson,
                 storyCount, requests, response, completion, result, log>>
  /\ UNCHANGED <<options, dirTree, gitDir, gitOps, fatalMsgs, otherVars>>

\* every status code reported as the generic failure
Report_AlwaysGeneric(err) ==
  IF err.message = Msg(T_FetchFailed, EmptyStr, 0)
    THEN FatalMsg(T_StorybookUploadFailed, NoError)
    ELSE FatalMsg(T_StorybookUploadFailedWith, err)

\* lines 70-84: the message chosen in the catch block
Report(err) ==
  IF err.statusCode = Num(401) THEN FatalMsg(T_InvalidToken, NoError)
  ELSE IF err.statusCode = Num(402) THEN FatalMsg(T_ErrMessage, err)
  ELSE IF err.message = Msg(T_FetchFailed, EmptyStr, 0)
    THEN FatalMsg(T_StorybookUploadFailed, NoError)
  ELSE FatalMsg(T_StorybookUploadFailedWith, err)

\* lines 60-85: the call of uploadStorybook has settled
CatchUpload ==
  /\ cliPc = "upload"
  /\ pc = "done"
  /\ IF result.state = "rejected"
       THEN Fatal(Report(result.error))
       ELSE cliPc' = "exit" /\ UNCHANGED fatalMsgs
  /\ UNCHANGED <<options, dirTree, gitDir, gitOps, resolved>>
  /\ UNCHANGED <<uploadVars, otherVars>>

IdleOpts ==
  [ commitSha |-> EmptyStr, branch |-> EmptyStr, baseCommitSha |-> Undefined,
    baseBranch |-> Undefined, prNumber |-> NoNum ]

\* the command lines tried: upload <dir> [-c] [-b] [--base-branch]
\* [--base-commit] [--pr]
\* every combination of the four metadata flags without --pr, and the
\* values of --pr without any other flag
OptionsSamples ==
  [ storybookDir : { Path(TRUE, MaxDepth) },
    commit : { Undefined, Some(HeadSha) },
    branch : { Undefined, Some(Str_m) },
    baseBranch : { Undefined, Some(EmptyStr), Some(Str_m), Some(Str_dev) },
    baseCommit : { Undefined, Some(GivenBaseSha) },
    pr : { Undefined } ]
  \cup
  [ storybookDir : { Path(TRUE, MaxDepth) },
    commit : { Undefined }, branch : { Undefined },
    baseBranch : { Undefined }, baseCommit : { Undefined },
    pr : { Some(<<"2">>), Some(<<"-", "1">>), Some(<<"x">>) } ]

\* the build directory is inside a repository rooted one level up, or in none
InitCli ==
  /\ options \in OptionsSamples
  /\ dirTree \in { Tree(1, {MaxDepth - 1}), Tree(1, {}) }
  /\ cliPc = "getToken"
  /\ gitDir = NoPath
  /\ gitOps = <<>>
  /\ resolved = NothingResolved
  /\ fatalMsgs = <<>>
  /\ opts = IdleOpts
  /\ pc = "idle"
  /\ UploadFresh
  /\ NoOtherCall

NextCli ==
  \/ GetToken
  \/ GetCommitSha
  \/ GetBranch
  \/ GetBaseBranch
  \/ GetBaseCommit
  \/ GetPrNumber
  \/ Validate
  \/ AccessProjectJson
  \/ ReadProjectJson
  \/ ReadIndexJson
  \/ CreateTarball
  \/ ReadTarball
  \/ Fetch
  \/ InterpretResponse
  \/ Cleanup
  \/ CatchUpload

SpecCli == InitCli /\ [][NextCli]_vars

----------------------------------------------------------------------------
(* The search for the repository root on its own *)

\* every directory layout and every start directory up to MaxDepth levels,
\* absolute or relative to the working directory
InitGitRoot ==
  /\ dirTree \in { Tree(cwd, markers) : cwd \in 0..MaxDepth, markers \in SUBSET (0..MaxDepth) }
  /\ options \in { [NoOptions EXCEPT !.storybookDir = p] :
                     p \in { Path(TRUE, n) : n \in 0..MaxDepth } \cup
                           { Path(FALSE, n) : n \in 0..(MaxDepth - dirTree.cwd) } }
  /\ cliPc = "findGitRoot"
  /\ gitDir = NoPath
  /\ gitOps = <<>>
  /\ resolved = NothingResolved
  /\ fatalMsgs = <<>>
  /\ opts = IdleOpts
  /\ pc = "idle"
  /\ UploadFresh
  /\ NoOtherCall

\* const gitDir = findGitRoot(storybookDir)
FindGitRoot ==
  /\ cliPc = "findGitRoot"
  /\ gitDir' = findGitRoot(dirTree, options.storybookDir)
  /\ gitOps' = Append(gitOps, Search("findGitRoot",
                                      findGitRoot(dirTree, options.storybookDir)))
  /\ cliPc' = "exit"
  /\ UNCHANGED <<options, dirTree, resolved, fatalMsgs>>
  /\ UNCHANGED <<uploadVars, otherVars>>

SpecGitRoot == InitGitRoot /\ [][FindGitRoot]_vars

----------------------------------------------------------------------------
(* Vocabulary of the properties *)

Settled == pc = "done"
OpCount(op) == Cardinality({ i \in DOMAIN fsOps : fsOps[i].op = op })
OpFailed(op) == \E i \in DOMAIN fsOps : fsOps[i].op = op /\ ~fsOps[i].ok
OpSucceeded(op) == \E i \in DOMAIN fsOps : fsOps[i].op = op /\ fsOps[i].ok
RequestSent == Len(requests) > 0
ArchiveExists == tarballFilename \in tmpFiles
RejectedWith(tmpl) == result.state = "rejected" /\ result.error.message.tmpl = tmpl

\* the four outcome classes of the exchange
ExchangeThrew == RequestSent /\ ~response.present
BodyObject == response.body.kind = "json" /\ response.body.json.t = "object"
BodySuccess(v) == BodyObject /\ "success" \in DOMAIN response.body.json.f
                    /\ response.body.json.f["success"].t = v
NonSuccessStatus == response.present /\ ~(response.status \in 200..299)
LogicalFailure == response.present /\ response.status \in 200..299 /\ BodySuccess("false")
ServiceSuccess == response.present /\ response.status \in 200..299 /\ BodySuccess("true")
FourOutcomes == ExchangeThrew \/ NonSuccessStatus \/ LogicalFailure \/ ServiceSuccess

----------------------------------------------------------------------------
\* C1 (as stated): in each of the four outcome classes of a call whose
\* packaging succeeded, the archive is deleted exactly once before the call
\* settles and the archive file does not exist once the call has settled.
C1_ArchiveGoneWhenSettled ==
  (Settled /\ FourOutcomes) => (OpCount("unlink") = 1 /\ ~ArchiveExists)

\* C1 (amended): in each of the four outcome classes the deletion of the
\* archive is attempted exactly once before the call settles, never before
\* the exchange is over, and the archive does not exist once the call has
\* settled if that deletion succeeded.
C1_DeletionAttemptedOnce ==
  /\ FourOutcomes =>
       /\ OpCount("unlink") = (IF Settled THEN 1 ELSE 0)
       /\ OpSucceeded("tar")
       /\ ~Settled => ArchiveExists
  /\ (Settled /\ FourOutcomes /\ OpSucceeded("unlink")) => ~ArchiveExists

C1_Witness ==
  Settled /\ LogicalFailure /\ OpCount("unlink") = 1 /\ OpSucceeded("unlink") /\ ~ArchiveExists

----------------------------------------------------------------------------
\* C2: a failure of the deletion of the archive is not escalated into the
\* result of the call: the call settles with the outcome of submission and
\* response interpretation.
C2_DeletionFailureNotEscalated ==
  (Settled /\ OpFailed("unlink")) => result = completion

----------------------------------------------------------------------------
\* the pattern ^[0-9a-f]{40}$ with the i flag, as the property states it
MatchesShaPattern(s) ==
  /\ Len(s) = 40
  /\ \A i \in 1..Len(s) :
       s[i] \in {"0", "1", "2", "3", "4", "5", "6", "7", "8", "9"}
                  \cup {"a", "b", "c", "d", "e", "f"} \cup {"A", "B", "C", "D", "E", "F"}

BadCommitSha == ~MatchesShaPattern(opts.commitSha)
BadBranch == Len(opts.branch) = 0 \/ Len(opts.branch) > 255

\* C3: if the commit SHA does not match ^[0-9a-f]{40}$ (case-insensitive) or
\* the branch has length 0 or more than 255, the call fails with the
\* corresponding validation error, whose message contains the offending
\* value, and no file access, read, packaging, request or deletion is made.
C3_ValidationBeforeIO ==
  (BadCommitSha \/ BadBranch) =>
     /\ fsOps = <<>> /\ requests = <<>> /\ tmpFiles = {}
     /\ pc \in {"validate", "done"}
     /\ Settled =>
          IF BadCommitSha
            THEN RejectedWith(T_InvalidCommitSha) /\ result.error.message.arg = opts.commitSha
            ELSE RejectedWith(T_InvalidBranch) /\ result.error.message.arg = opts.branch

C3_Witness ==
  /\ Settled /\ ~BadCommitSha /\ Len(opts.branch) > 255
  /\ RejectedWith(T_InvalidBranch) /\ result.error.message.arg = opts.branch
  /\ fsOps = <<>>

----------------------------------------------------------------------------
\* a parsed project.json that has a string storybookVersion
ManifestGood(text) ==
  /\ text.kind = "json" /\ text.json.t = "object"
  /\ "storybookVersion" \in DOMAIN text.json.f
  /\ text.json.f["storybookVersion"].t = "string"

\* the keys of the entries mapping of a parsed index.json
StoryKeys(text) ==
  IF /\ text.kind = "json" /\ text.json.t = "object"
     /\ "entries" \in DOMAIN text.json.f
     /\ text.json.f["entries"].t \in {"object", "array"}
    THEN DOMAIN text.json.f["entries"].f
    ELSE {}

ManifestValidationFailed ==
  \/ OpFailed("access")
  \/ projectJson.kind \in {"unreadable", "invalid"}
  \/ projectJson.kind = "json" /\ ~ManifestGood(projectJson)
  \/ indexJson.kind \in {"unreadable", "invalid"}
  \/ indexJson.kind = "json" /\ StoryKeys(indexJson) = {}

\* C4: if manifest validation fails for any reason (project.json absent,
\* unreadable or unparseable, storybookVersion missing or not a string,
\* index.json unreadable or unparseable, zero stories), the call fails with
\* that condition, packaging is never attempted, no archive is created and no
\* request is issued.
C4_ManifestFailureStopsPipeline ==
  ManifestValidationFailed =>
     /\ Settled /\ result.state = "rejected"
     /\ OpFailed("access") => RejectedWith(T_ManifestMissing)
     /\ projectJson.kind \in {"unreadable", "invalid"} => RejectedWith(T_ManifestParseError)
     /\ (projectJson.kind = "json" /\ ~ManifestGood(projectJson)) =>
          RejectedWith(T_ManifestInvalid)
     /\ indexJson.kind \in {"unreadable", "invalid"} => RejectedWith(T_IndexParseError)
     /\ (indexJson.kind = "json" /\ StoryKeys(indexJson) = {}) =>
          RejectedWith(T_NoStoriesFound)
     /\ OpCount("tar") = 0 /\ tmpFiles = {} /\ requests = <<>>

C4_Witness ==
  /\ Settled /\ projectJson.kind = "json" /\ projectJson.json.t = "object"
  /\ "storybookVersion" \in DOMAIN projectJson.json.f
  /\ ~ManifestGood(projectJson)
  /\ RejectedWith(T_ManifestInvalid) /\ OpCount("tar") = 0 /\ requests = <<>>

----------------------------------------------------------------------------
IndexIsObject == indexJson.kind = "json" /\ indexJson.json.t = "object"
EntriesMissing == IndexIsObject /\ "entries" \notin DOMAIN indexJson.json.f
EntriesMapping == IndexIsObject /\ "entries" \in DOMAIN indexJson.json.f
                    /\ indexJson.json.f["entries"].t = "object"

\* C5: if index.json parses to an object whose entries mapping is empty or
\* whose entries field is missing, the call fails with the no-stories
\* condition; with at least one key in entries the check passes and the
\* story count is the number of keys.
C5_StoryCount ==
  /\ (EntriesMissing \/ (EntriesMapping /\ StoryKeys(indexJson) = {})) =>
        Settled /\ RejectedWith(T_NoStoriesFound)
  /\ (EntriesMapping /\ StoryKeys(indexJson) # {}) =>
        /\ storyCount = Cardinality(StoryKeys(indexJson))
        /\ ~RejectedWith(T_NoStoriesFound)
        /\ pc # "readIndex"
        /\ \E i \in DOMAIN log :
             log[i] = Msg(T_FoundStories, EmptyStr, Cardinality(StoryKeys(indexJson)))

C5_Witness ==
  /\ EntriesMapping /\ Cardinality(StoryKeys(indexJson)) = 2
  /\ storyCount = 2 /\ pc = "tar"

----------------------------------------------------------------------------
\* C6: in every request sent, the base-commit and base-branch headers are
\* present only if both baseCommitSha and baseBranch are non-empty; a
\* request never carries one of the two without the other.
C6_BaseHeadersTogether ==
  \A i \in DOMAIN requests :
    LET h == requests[i].headers
    IN  (h.BaseCommitSha.def \/ h.BaseBranch.def) =>
          /\ h.BaseCommitSha.def /\ h.BaseBranch.def
          /\ opts.baseCommitSha.def /\ Len(opts.baseCommitSha.v) > 0
          /\ opts.baseBranch.def /\ Len(opts.baseBranch.v) > 0

----------------------------------------------------------------------------
\* C7: the PR-number header is present in a request only if prNumber is a
\* positive integer; a prNumber that is absent, zero or negative gives a
\* request without the header.
C7_PrHeaderOnlyIfPositive ==
  \A i \in DOMAIN requests :
    requests[i].headers.PRNumber.def =>
      (opts.prNumber.k = "number" /\ opts.prNumber.v >= 1)

----------------------------------------------------------------------------
BodyHasStringError ==
  /\ BodyObject
  /\ "error" \in DOMAIN response.body.json.f
  /\ response.body.json.f["error"].t = "string"

\* C8: for every response with a non-success status the call fails with an
\* error that has the response's status code attached, whose message is the
\* body's error string when the body is JSON with a string error field and
\* the generic "<statusText> (<status>)" message otherwise.
C8_RejectionCarriesStatus ==
  (Settled /\ NonSuccessStatus) =>
     /\ result.state = "rejected"
     /\ result.error.statusCode = Num(response.status)
     /\ result.error.message =
          IF BodyHasStringError
            THEN Msg(T_ErrorStringVerbatim, response.body.json.f["error"].s, 0)
            ELSE Msg(T_UploadRejectedGeneric, response.statusText, response.status)

----------------------------------------------------------------------------
\* C9: the call settles successfully only when the service answered with a
\* success status whose body reports success:true; a success status whose
\* body reports success:false makes the call fail with an error that carries
\* the body's error field, or the generic fallback, and no status code.
C9_SuccessOnlyOnSuccessTrue ==
  /\ result.state = "fulfilled" => ServiceSuccess
  /\ (Settled /\ LogicalFailure) =>
        /\ result.state = "rejected"
        /\ result.error.statusCode = NoNum
        /\ result.error.message =
             Msg(T_UploadFailed,
                 IF BodyHasStringError THEN response.body.json.f["error"].s
                                       ELSE Str_UnknownError,
                 0)

----------------------------------------------------------------------------
BodyId(name) == IF name \in DOMAIN response.body.json.f
                  THEN response.body.json.f[name] ELSE JUndefined

----------------------------------------------------------------------------
\* C11: no retries are performed: in one call the packaging step is invoked
\* at most once and the POST is issued at most once, and every failure is
\* terminal: after a failure outside the try block the call is settled, and
\* after a failure inside it only the deletion of the archive remains.
C11_NoRetries ==
  /\ OpCount("tar") <= 1 /\ Len(requests) <= 1
  /\ OpCount("access") <= 1 /\ OpCount("unlink") <= 1
  /\ result.state = "rejected" => pc = "done"
  /\ completion.state = "rejected" => pc \in {"finally", "done"}

C11_Witness ==
  /\ Settled /\ ExchangeThrew /\ result.state = "rejected"
  /\ OpCount("tar") = 1 /\ Len(requests) = 1 /\ OpCount("unlink") = 1

----------------------------------------------------------------------------
(* Concurrent calls *)

\* the call has created its archive and has not yet finished deleting it
InFlight == pc \in {"readBody", "fetch", "interpret", "finally"}
OtherInFlight == otherPc \in {"fetch", "finally"}

\* C12: concurrent invocations sharing one temporary directory are safe:
\* whenever two invocations are in flight their archive paths differ, and so
\* the archive of an invocation in flight is never deleted by the other one.
C12_ArchivePathsDistinct ==
  /\ InFlight /\ OtherInFlight => tarballFilename # otherName
  /\ InFlight => ArchiveExists

----------------------------------------------------------------------------
(* The command line *)

\* the queries made on behalf of the base pair
BaseOps == SelectSeq(gitOps, LAMBDA o : o.fn = "getBaseCommitShaAndBranch")
HasBaseOp(cmd) == \E i \in DOMAIN BaseOps : BaseOps[i].cmd = cmd
LastBaseOp == BaseOps[Len(BaseOps)]

\* the pair [baseCommitSha, baseBranch] has been assigned
BaseDecided == cliPc \in {"getPrNumber", "upload"} \/ (cliPc = "exit" /\ pc # "idle")
UploadCalled == pc # "idle"

\* --base-commit and --base-branch are both given, with non-empty values
BothBaseGiven == TruthyStr(options.baseCommit) /\ TruthyStr(options.baseBranch)

\* C13: with both the base commit and the base branch supplied, no query is
\* made on behalf of the base pair (no root search, log, remote listing,
\* rev-parse or merge-base), and the supplied pair is the pair passed to
\* uploadStorybook and sent with the request.
C13_ExplicitBaseNoQuery ==
  BothBaseGiven =>
    /\ BaseOps = <<>>
    /\ BaseDecided => /\ resolved.baseCommitSha = options.baseCommit
                      /\ resolved.baseBranch = options.baseBranch
    /\ UploadCalled => /\ opts.baseCommitSha = options.baseCommit
                       /\ opts.baseBranch = options.baseBranch
    /\ \A i \in DOMAIN requests :
         /\ requests[i].headers.BaseCommitSha = options.baseCommit
         /\ requests[i].headers.BaseBranch = options.baseBranch

C13_Witness ==
  /\ BothBaseGiven /\ cliPc = "exit" /\ RequestSent
  /\ gitOps # <<>> /\ BaseOps = <<>>

\* base resolution ran and found no repository root above the build directory
NoRootForBase ==
  BaseOps # <<>> /\ LastBaseOp.cmd = "findGitRoot" /\ LastBaseOp.out = Nothing

\* base resolution ran and the repository has no remote named origin
NoOriginForBase ==
  BaseOps # <<>> /\ LastBaseOp.cmd = "getRemotes" /\ LastBaseOp.out = Nothing

NoBaseHeaders(r) == ~r.headers.BaseCommitSha.def /\ ~r.headers.BaseBranch.def

\* vizdiff() itself rejected: the rejection was passed to fatal()
CliRejected == \E i \in DOMAIN fatalMsgs : fatalMsgs[i].tmpl = T_Rejection

\* C14: when base resolution finds no repository root, or no remote named
\* origin, the base commit and the base branch are both absent, no error is
\* raised, and uploadStorybook is called without a baseline: its request
\* carries neither base header.
C14_NoBaselineIsNotAnError ==
  NoRootForBase \/ NoOriginForBase =>
    /\ BaseDecided /\ ~CliRejected
    /\ resolved.baseCommitSha = Undefined /\ resolved.baseBranch = Undefined
    /\ cliPc = "exit" => UploadCalled
    /\ UploadCalled => opts.baseCommitSha = Undefined /\ opts.baseBranch = Undefined
    /\ \A i \in DOMAIN requests : NoBaseHeaders(requests[i])

C14_Witness ==
  /\ NoOriginForBase /\ TruthyStr(options.baseBranch)
  /\ cliPc = "exit" /\ RequestSent /\ result.state = "fulfilled"

\* getBaseCommitShaAndBranch chose its base branch and went on to the commit
BaseBranchChosen == resolved.actualBaseBranch.def /\ cliPc # "getBaseCommit"
OnBaseBranch == resolved.branch.v = resolved.actualBaseBranch.v
ParentRev == resolved.commitSha.v \o <<"~", "1">>

\* C15: when the current branch equals the resolved base branch, the base
\* commit is what rev-parse gives for <commitSha>~1, the immediate parent of
\* the current commit, and no merge-base computation is performed.
C15_SameBranchUsesParent ==
  BaseBranchChosen /\ OnBaseBranch =>
    /\ ~HasBaseOp("merge-base")
    /\ LastBaseOp.cmd = "revparse" /\ LastBaseOp.arg = ParentRev
    /\ LastBaseOp.out # Threw =>
         /\ BaseDecided
         /\ resolved.baseCommitSha = Some(LastBaseOp.out.v)
         /\ resolved.baseBranch = resolved.actualBaseBranch
         /\ UploadCalled => opts.baseCommitSha = Some(LastBaseOp.out.v)

C15_Witness ==
  /\ BaseBranchChosen /\ OnBaseBranch /\ RequestSent
  /\ requests[1].headers.BaseCommitSha = Some(ParentSha)
  /\ requests[1].headers.BaseBranch = resolved.branch

\* the merge base of the current branch and the base branch was asked for
MergeBaseAsked == BaseOps # <<>> /\ LastBaseOp.cmd = "merge-base"
BothBranches == resolved.branch.v \o <<",">> \o resolved.actualBaseBranch.v
MergeBaseNotFound == FatalMsg(T_Rejection, Error(Msg(T_MergeBaseFailed, BothBranches, 0)))

\* C16: when the current branch differs from the resolved base branch the
\* base commit is the merge base of the two; when no merge base can be
\* computed the run ends with one fatal error that names both branches and
\* uploadStorybook is not called: the base commit is never left empty.
C16_MergeBaseOrFatal ==
  MergeBaseAsked =>
    \/ /\ BaseDecided
       /\ isValidGitCommitHash(resolved.baseCommitSha.v)
       /\ resolved.baseCommitSha = Some(Trim(LastBaseOp.out.v))
       /\ resolved.baseBranch = resolved.actualBaseBranch
    \/ /\ fatalMsgs = <<MergeBaseNotFound>>
       /\ cliPc = "exit" /\ ~UploadCalled

\* the base branch detected from origin/HEAD
DetectedDefault ==
  LET i == CHOOSE i \in DOMAIN BaseOps : BaseOps[i].arg = Str_abbrevRefHead
  IN  Replace(BaseOps[i].out.v, Str_origin, EmptyStr)

\* C17: when base resolution runs with a non-empty --base-branch, that
\* override is the base branch: it decides between the parent and the merge
\* base, it is the branch given to merge-base, and it is the base branch
\* returned; the default detected from origin/HEAD is used only without it.
C17_OverridePreferred ==
  resolved.actualBaseBranch.def =>
    LET base == IF TruthyStr(options.baseBranch) THEN options.baseBranch.v
                ELSE DetectedDefault
    IN  /\ resolved.actualBaseBranch.v = base
        /\ HasBaseOp("merge-base") =>
             /\ resolved.branch.v # base
             /\ LastBaseOp.arg = resolved.branch.v \o <<" ">> \o base
        /\ BaseBranchChosen /\ resolved.branch.v # base => HasBaseOp("merge-base")
        /\ BaseDecided => resolved.baseBranch = Some(base)
        /\ \A i \in DOMAIN requests : requests[i].headers.BaseBranch = Some(base)

C17_Witness ==
  /\ resolved.actualBaseBranch.def /\ options.baseBranch = Some(Str_dev)
  /\ DetectedDefault = Str_m /\ resolved.branch.v = Str_m
  /\ HasBaseOp("merge-base") /\ RequestSent
  /\ requests[1].headers.BaseBranch = Some(Str_dev)

\* C18: a flag overrides the detection it stands for: the commit of -c, the
\* branch of -b and the base commit of --base-commit are the values sent
\* with the upload, the last whether or not --base-branch is given as well.
C18_FlagsOverrideDetection ==
  \A i \in DOMAIN requests :
    /\ TruthyStr(options.commit) => requests[i].headers.CommitSha = options.commit
    /\ TruthyStr(options.branch) => requests[i].headers.Branch = options.branch
    /\ TruthyStr(options.baseCommit) => requests[i].headers.BaseCommitSha = options.baseCommit

\* C19: findGitRoot returns the nearest directory, the start directory or
\* its closest ancestor, that holds a .git entry, and returns nothing only
\* when no directory from the start up to the filesystem root holds one.
C19_NearestMarkerFound ==
  cliPc = "exit" /\ gitOps # <<>> /\ gitOps[1].fn = "findGitRoot" =>
    LET start == AbsDepth(dirTree, options.storybookDir)
        above == { d \in dirTree.markers : d <= start }
    IN  /\ gitDir.def <=> above # {}
        /\ gitDir.def => /\ AbsDepth(dirTree, gitDir) \in above
                         /\ \A d \in above : d <= AbsDepth(dirTree, gitDir)

\* the call of uploadStorybook made by vizdiff() failed and was handled
UploadFailedAndReported == cliPc = "exit" /\ pc = "done" /\ result.state = "rejected"

----------------------------------------------------------------------------
(* The order of the steps of one call *)

\* the first n file-system steps, all successful: the access check, the two
\* manifest reads, the packaging and the two reads of the archive
StepsInOrder(n) ==
  LET steps == << FsOp("access", "project.json", TRUE),
                  FsOp("readFile", "project.json", TRUE),
                  FsOp("readFile", "index.json", TRUE),
                  FsOp("tar", ArchivePath, TRUE),
                  FsOp("readFile", ArchivePath, TRUE),
                  FsOp("readFile", ArchivePath, TRUE) >>
  IN  Len(fsOps) >= n /\ SubSeq(fsOps, 1, n) = SubSeq(steps, 1, n)

DeletionStarted == OpCount("unlink") > 0

\* C21: the steps of one call are sequential and each gates the next.  A
\* request is sent only after input validation, manifest and index
\* validation and packaging all passed, so every request carries a commit
\* SHA of 40 hex characters and a branch of length 1..255; a failed step is
\* followed by nothing but the deletion; and the deletion starts only when
\* the try block is over: after it no request is sent and the exchange, if
\* one was made, has been answered and interpreted or has thrown.
C21_StepsGateEachOther ==
  /\ RequestSent =>
       /\ ~BadCommitSha /\ ~BadBranch
       /\ \A i \in DOMAIN requests :
            /\ MatchesShaPattern(requests[i].headers.CommitSha.v)
            /\ Len(requests[i].headers.Branch.v) \in 1..255
       /\ ~ManifestValidationFailed
       /\ ManifestGood(projectJson) /\ StoryKeys(indexJson) # {}
       /\ StepsInOrder(6)
  /\ \A i \in 2..Len(fsOps) :
       \/ fsOps[i - 1].ok
       \/ fsOps[i].op = "unlink" /\ fsOps[i - 1] = FsOp("readFile", ArchivePath, FALSE)
  /\ OpCount("tar") > 0 => StepsInOrder(3)
  /\ pc \in {"fetch", "interpret"} => ~DeletionStarted
  /\ DeletionStarted =>
       /\ Settled /\ completion.state # "pending"
       /\ fsOps[Len(fsOps)].op = "unlink" /\ OpCount("unlink") = 1
       /\ StepsInOrder(4)
       /\ RequestSent /\ response.present =>
            (completion.state = "fulfilled" <=> ServiceSuccess)

C21_Witness ==
  /\ DeletionStarted /\ RequestSent /\ LogicalFailure
  /\ Len(opts.branch) = 255 /\ StepsInOrder(6) /\ Len(fsOps) = 7

----------------------------------------------------------------------------
\* the first read of the archive, made before the request, failed
ArchiveReadFailedFirst ==
  Len(fsOps) >= 5 /\ fsOps[4].op = "tar" /\ fsOps[5] = FsOp("readFile", ArchivePath, FALSE)

\* C22: the deletion of the archive is attempted exactly once if and only if
\* the packaging step returned no error.  When packaging reports an error
\* the call fails with the packaging-failed error, sends no request and
\* attempts no deletion; when packaging succeeded the deletion is attempted
\* once, also when reading the archive back fails before any request.
C22_DeletionIffPackaged ==
  /\ OpCount("unlink") <= 1
  /\ DeletionStarted => OpSucceeded("tar")
  /\ Settled => (OpCount("unlink") = 1 <=> OpSucceeded("tar"))
  /\ OpFailed("tar") =>
       /\ Settled /\ RejectedWith(T_PackagingFailed)
       /\ requests = <<>> /\ ~DeletionStarted
  /\ ArchiveReadFailedFirst /\ Settled =>
       /\ OpCount("unlink") = 1 /\ requests = <<>>
       /\ result.state = "rejected"

C22_Witness ==
  /\ Settled /\ ArchiveReadFailedFirst /\ OpSucceeded("tar")
  /\ OpCount("unlink") = 1 /\ requests = <<>>

====
